---- MODULE Spec2Model ----
EXTENDS Integers, Naturals, Sequences, FiniteSets, TLC

\* Verification model of hardhat-cover: SourceMap (source.ts), Sources,
\* Trace.followInfo (trace.ts), Coverage.report / buildOffsetToPosition and
\* CoverInterceptor (coverage.ts).

(***************************************************************************)
(* Generic helpers                                                         *)
(***************************************************************************)

\* JavaScript String.prototype.slice(a, b) on a sequence: a negative index
\* counts from the end, then both are clamped to 0..length.
JsSliceIndex(len, x) ==
  IF x < 0 THEN (IF len + x < 0 THEN 0 ELSE len + x) ELSE IF x > len THEN len ELSE x
JsSlice(s, a, b) ==
  LET lo == JsSliceIndex(Len(s), a)
      hi == JsSliceIndex(Len(s), b)
  IN IF hi <= lo THEN <<>> ELSE SubSeq(s, lo + 1, hi)

\* String.prototype.split(sep) on a sequence of one-character strings.
RECURSIVE SplitAcc(_, _, _, _)
SplitAcc(s, sep, cur, acc) ==
  IF s = <<>> THEN Append(acc, cur)
  ELSE IF Head(s) = sep THEN SplitAcc(Tail(s), sep, <<>>, Append(acc, cur))
  ELSE SplitAcc(Tail(s), sep, Append(cur, Head(s)), acc)
Split(s, sep) == SplitAcc(s, sep, <<>>, <<>>)

DigitOf == [c \in {"0","1","2","3","4","5","6","7","8","9"} |->
              CASE c = "0" -> 0 [] c = "1" -> 1 [] c = "2" -> 2 [] c = "3" -> 3
                [] c = "4" -> 4 [] c = "5" -> 5 [] c = "6" -> 6 [] c = "7" -> 7
                [] c = "8" -> 8 [] c = "9" -> 9]

\* parseInt(s) with no radix: leading whitespace is skipped, then an optional
\* sign, then a '0x'/'0X' prefix selects radix 16; the value of the leading
\* digits of the radix, NaN when there are none.
HexDigitOf == [c \in {"0","1","2","3","4","5","6","7","8","9","a","b","c","d","e","f",
                      "A","B","C","D","E","F"} |->
                 IF c \in DOMAIN DigitOf THEN DigitOf[c]
                 ELSE CASE c \in {"a", "A"} -> 10 [] c \in {"b", "B"} -> 11
                        [] c \in {"c", "C"} -> 12 [] c \in {"d", "D"} -> 13
                        [] c \in {"e", "E"} -> 14 [] c \in {"f", "F"} -> 15]
\* ECMAScript WhiteSpace and LineTerminator. A character outside ASCII is
\* written as the string "\\uXXXX" of its code unit.
JsWhitespace ==
  {" ", "\t", "\n", "\r", "\f", "\\u000b", "\\u00a0", "\\ufeff", "\\u1680",
   "\\u2000", "\\u2001", "\\u2002", "\\u2003", "\\u2004", "\\u2005", "\\u2006",
   "\\u2007", "\\u2008", "\\u2009", "\\u200a", "\\u2028", "\\u2029", "\\u202f",
   "\\u205f", "\\u3000"}
RECURSIVE DigitsValue(_, _, _)
DigitsValue(s, digits, acc) ==
  IF s = <<>> \/ Head(s) \notin DOMAIN digits THEN acc
  ELSE DigitsValue(Tail(s), digits, (IF digits = DigitOf THEN 10 ELSE 16) * acc + digits[Head(s)])
RECURSIVE TrimStart(_)
TrimStart(s) == IF s /= <<>> /\ Head(s) \in JsWhitespace THEN TrimStart(Tail(s)) ELSE s
\* The digit table and the digits after the radix prefix.
RadixDigits(s) ==
  IF Len(s) >= 2 /\ s[1] = "0" /\ s[2] \in {"x", "X"}
  THEN [ds |-> HexDigitOf, rest |-> Tail(Tail(s))]
  ELSE [ds |-> DigitOf, rest |-> s]
NoDigits(s) ==
  LET r == RadixDigits(s) IN r.rest = <<>> \/ Head(r.rest) \notin DOMAIN r.ds
UnsignedParseInt(s) ==
  LET r == RadixDigits(s) IN IF NoDigits(s) THEN "NaN" ELSE DigitsValue(r.rest, r.ds, 0)
ParseInt(str) ==
  LET s == TrimStart(str)
  IN IF s /= <<>> /\ Head(s) = "-"
     THEN IF NoDigits(Tail(s)) THEN "NaN" ELSE -UnsignedParseInt(Tail(s))
     ELSE IF s /= <<>> /\ Head(s) = "+" THEN UnsignedParseInt(Tail(s))
     ELSE UnsignedParseInt(s)

\* String.prototype.toLowerCase on one character of the modelled strings
\* (ASCII, and the whitespace characters of JsWhitespace, which have no
\* lower case): A-Z map to a-z, every other character is left as is.
LowerCaseOf ==
  ("A" :> "a") @@ ("B" :> "b") @@ ("C" :> "c") @@ ("D" :> "d") @@ ("E" :> "e") @@
  ("F" :> "f") @@ ("G" :> "g") @@ ("H" :> "h") @@ ("I" :> "i") @@ ("J" :> "j") @@
  ("K" :> "k") @@ ("L" :> "l") @@ ("M" :> "m") @@ ("N" :> "n") @@ ("O" :> "o") @@
  ("P" :> "p") @@ ("Q" :> "q") @@ ("R" :> "r") @@ ("S" :> "s") @@ ("T" :> "t") @@
  ("U" :> "u") @@ ("V" :> "v") @@ ("W" :> "w") @@ ("X" :> "x") @@ ("Y" :> "y") @@
  ("Z" :> "z")
LowerChar(ch) == IF ch \in DOMAIN LowerCaseOf THEN LowerCaseOf[ch] ELSE ch
ToLower(str) == [k \in DOMAIN str |-> LowerChar(str[k])]

(***************************************************************************)
(* SourceMap (src/unnamed/part_000)                                        *)
(***************************************************************************)

\* The hex string bytecode is a sequence of nibbles; Buffer.from(hex, 'hex')
\* decodes whole pairs.
DecodeHex(h) == [k \in 1..(Len(h) \div 2) |-> 16 * h[2 * k - 1] + h[2 * k]]
EncodeHex(bs) == [k \in 1..(2 * Len(bs)) |->
                    IF k % 2 = 1 THEN bs[(k + 1) \div 2] \div 16 ELSE bs[k \div 2] % 16]

\* instructionLength: PUSH1..PUSH32 carry their data bytes; bytes[pc] past the
\* end of the decoded array is undefined (written -1 here), for which both
\* comparisons are false, giving length 1.
InstructionLength(instruction) ==
  IF instruction >= 96 /\ instruction <= 127
  THEN instruction - 96 + 2 ELSE 1

\* buildPCToInstructionIndices: the walk runs while pc < bytecode.length, the
\* length of the hex string. The loop state is w = [pc, i, acc]; WalkSteps
\* runs up to n iterations, WalkPC repeats it until the loop exits.
WalkStep(bytes, w) ==
  LET b == IF w.pc < Len(bytes) THEN bytes[w.pc + 1] ELSE -1
  IN [pc |-> w.pc + InstructionLength(b), i |-> w.i + 1, acc |-> w.acc @@ (w.pc :> w.i)]
RECURSIVE WalkSteps(_, _, _, _)
WalkSteps(bytes, stop, w, n) ==
  IF n = 0 \/ w.pc >= stop THEN w ELSE WalkSteps(bytes, stop, WalkStep(bytes, w), n - 1)
RECURSIVE WalkPC(_, _, _)
WalkPC(bytes, stop, w) ==
  IF w.pc >= stop THEN w.acc ELSE WalkPC(bytes, stop, WalkSteps(bytes, stop, w, 16))
WalkStart == [pc |-> 0, i |-> 0, acc |-> <<>>]
\* Variant walking the decoded bytes only.
BuildPCToInstructionIndicesDecoded(hex) ==
  WalkPC(DecodeHex(hex), Len(DecodeHex(hex)), WalkStart)
BuildPCToInstructionIndices(hex) == WalkPC(DecodeHex(hex), Len(hex), WalkStart)

\* parse without inheritance: an empty field reads as 0.
RECURSIVE ParseEntriesNoInherit(_, _, _)
ParseEntriesNoInherit(entries, state, acc) ==
  IF entries = <<>> THEN acc
  ELSE LET fs == Split(Head(entries), ":")
           s == IF Len(fs) >= 1 /\ fs[1] /= <<>> THEN ParseInt(fs[1]) ELSE 0
           l == IF Len(fs) >= 2 /\ fs[2] /= <<>> THEN ParseInt(fs[2]) ELSE 0
           f == IF Len(fs) >= 3 /\ fs[3] /= <<>> THEN ParseInt(fs[3]) ELSE 0
       IN ParseEntriesNoInherit(Tail(entries), state,
                                Append(acc, [start |-> s, length |-> l, index |-> f]))
\* parse: the k-th ';' entry updates the inherited state field by field.
RECURSIVE ParseEntries(_, _, _)
ParseEntries(entries, state, acc) ==
  IF entries = <<>> THEN acc
  ELSE LET fs == Split(Head(entries), ":")
           s == IF Len(fs) >= 1 /\ fs[1] /= <<>> THEN ParseInt(fs[1]) ELSE state.s
           l == IF Len(fs) >= 2 /\ fs[2] /= <<>> THEN ParseInt(fs[2]) ELSE state.l
           f == IF Len(fs) >= 3 /\ fs[3] /= <<>> THEN ParseInt(fs[3]) ELSE state.f
           ns == [s |-> s, l |-> l, f |-> f]
       IN ParseEntries(Tail(entries), ns,
                       Append(acc, [start |-> s, length |-> l, index |-> f]))
\* instructionIndexToRanges as a function from instruction index (from 0).
ParseRanges(sourceMap) ==
  LET rs == ParseEntries(Split(sourceMap, ";"), [s |-> 0, l |-> 0, f |-> 0], <<>>)
  IN [k \in 0..(Len(rs) - 1) |-> rs[k + 1]]

\* A lookup result: the instruction index or the range found; found is FALSE
\* where the code throws.
NoRange == [start |-> -1, length |-> -1, index |-> -1]
Result(found, idx, range) == [found |-> found, idx |-> idx, range |-> range]
NoResult == Result(FALSE, -1, NoRange)
PcToInstructionIndex(pcMap, pc) ==
  IF pc \in DOMAIN pcMap THEN Result(TRUE, pcMap[pc], NoRange) ELSE NoResult
InstructionIndexToRange(rmap, i) ==
  IF i \in DOMAIN rmap THEN Result(TRUE, -1, rmap[i]) ELSE NoResult

(***************************************************************************)
(* Test fixtures (src/test/source.js)                                      *)
(***************************************************************************)

\* ConstructorCode.object as nibbles.
ConstructorObject ==
  <<6, 0, 8, 0, 6, 0, 4, 0, 5, 2, 6, 0, 0, 0, 8, 0, 15, 13, 15, 14, 10, 2,
  6, 4, 6, 9, 7, 0, 6, 6, 7, 3, 5, 8, 2, 2, 1, 2, 2, 0, 7, 2, 3, 9, 13, 3,
  15, 1, 14, 12, 15, 7, 8, 10, 5, 1, 2, 7, 2, 9, 11, 7, 3, 15, 11, 7, 11,
  14, 12, 11, 7, 9, 6, 5, 4, 11, 11, 9, 10, 12, 13, 14, 3, 12, 1, 12, 4, 8,
  8, 6, 11, 1, 3, 6, 2, 15, 11, 10, 11, 6, 2, 3, 0, 7, 6, 4, 7, 3, 6, 15, 6,
  12, 6, 3, 4, 3, 0, 0, 0, 8, 0, 13, 0, 0, 3, 3>>
\* ConstructorCode.sourceMap = "155:997:1:-:0;;;;;"
ConstructorSourceMap ==
  <<"1","5","5",":","9","9","7",":","1",":","-",":","0">> \o [k \in 1..5 |-> ";"]
\* RuntimeCode.object as nibbles.
RuntimeObject ==
  <<6, 0, 8, 0, 6, 0, 4, 0, 5, 2, 3, 4, 8, 0, 1, 5, 6, 0, 0, 15, 5, 7, 6, 0,
  0, 0, 8, 0, 15, 13, 5, 11, 5, 0, 6, 0, 3, 15, 8, 0, 6, 0, 1, 13, 6, 0, 0,
  0, 3, 9, 6, 0, 0, 0, 15, 3, 15, 14, 6, 0, 8, 0, 6, 0, 4, 0, 5, 2, 6, 0, 0,
  0, 8, 0, 15, 13, 15, 14, 10, 2, 6, 4, 6, 9, 7, 0, 6, 6, 7, 3, 5, 8, 2, 2,
  1, 2, 2, 0, 7, 2, 3, 9, 13, 3, 15, 1, 14, 12, 15, 7, 8, 10, 5, 1, 2, 7, 2,
  9, 11, 7, 3, 15, 11, 7, 11, 14, 12, 11, 7, 9, 6, 5, 4, 11, 11, 9, 10, 12,
  13, 14, 3, 12, 1, 12, 4, 8, 8, 6, 11, 1, 3, 6, 2, 15, 11, 10, 11, 6, 2, 3,
  0, 7, 6, 4, 7, 3, 6, 15, 6, 12, 6, 3, 4, 3, 0, 0, 0, 8, 0, 13, 0, 0, 3,
  3>>
\* RuntimeCode.sourceMap = "155:997:1:-:0" followed by 19 ';'
RuntimeSourceMap ==
  <<"1","5","5",":","9","9","7",":","1",":","-",":","0">> \o [k \in 1..19 |-> ";"]

(***************************************************************************)
(* State                                                                   *)
(***************************************************************************)

VARIABLES
  \* SourceMap: the code object and sourceMap string handed to parse, the
  \* tables it builds, and the last lookup made on it.
  smHex, smSrcMap, smPcMap, smRanges, smParsed, smQuery, smResult

VARIABLES
  \* Coverage over one source path: its content, the offsetToPosition and
  \* features tables Coverage.cover builds, the report, the report before the
  \* last report call, the logs of the last call, the number of calls and the
  \* report after the first call.
  content, offsetToPosition, features, rep, prevRep, lastLogs, nCalls, firstRep,
  \* the path of the source in Sources and the exception the last report
  \* call threw ("none" when it returned).
  covPath, covErr

VARIABLES
  \* Trace.followInfo: tx.to, the structLog being processed and the one after
  \* it (structLogs[i], structLogs[i+1]), the index i, the frame stack, the
  \* last TaggedLog yielded, whether an assume threw, whether the loop ended.
  trTo, trCur, trNext, trI, trStack, trLast, trErr, trDone

VARIABLES
  \* Sources: the SourceMaps (by number, with their compilerSources), the
  \* keys of bytecodeToSourceMaps in insertion order and the map itself,
  \* bytecodeAndIndexToPath, pathToCompilerSources, unique, the phase
  \* ("new" before the constructor, "ready", or "error" if the constructor threw),
  \* the last bytecodeToSourceMap query and its result, the keys and map
  \* before it, the number of lookups made, and addressToBytecodes.
  srcMaps, srcKeys, srcB2S, srcBi2p, srcP2cs, srcUnique, srcPhase,
  srcQuery, srcResult, srcPrevKeys, srcPrevB2S, srcLookups, srcAddrs

VARIABLES
  \* CoverInterceptor.request, per concurrent request: its method, the step
  \* it awaits, the result of its forwarded eth_call and its snapshot id (0
  \* before them), and the value it returned or threw (0 while pending); the
  \* provider's next snapshot id and its stack of live snapshots; the
  \* snapshot ids issued and the evm_revert requests (id, whether it was
  \* live, "call" for interceptCall's or "user" for a forwarded one) in
  \* order; the transactions whose logs traceAndReport added to the shared
  \* report (in full, or part-way before a throw).
  icKind, icPc, icResult, icSnapId, icReturned, icNextSnap, icLive, icSnaps, icReverts, icTraced

VARIABLES
  \* Coverage.filteredReport: the paths of the report handed to it, the
  \* syntax table of those paths (features, and the skip flags of fnMap and
  \* statementMap), the l counters of the report, and the filtered report's
  \* l counters by path (<<>> before the call).
  flPaths, flContent, flFeatures, flFnSkip, flStmtSkip, flInL, flOut

VARIABLES
  \* Coverage.traceAndReport: the outcome of crawling and reporting each
  \* transaction hash, the index of the next hash, the hashes whose logs
  \* were reported, and whether the returned promise is pending, resolved
  \* or rejected.
  taTxs, taI, taReported, taStatus

smVars == <<smHex, smSrcMap, smPcMap, smRanges, smParsed, smQuery, smResult>>
covVars == <<content, offsetToPosition, features, rep, prevRep, lastLogs, nCalls, firstRep,
             covPath, covErr>>
trVars == <<trTo, trCur, trNext, trI, trStack, trLast, trErr, trDone>>
srcVars == <<srcMaps, srcKeys, srcB2S, srcBi2p, srcP2cs, srcUnique, srcPhase,
             srcQuery, srcResult, srcPrevKeys, srcPrevB2S, srcLookups, srcAddrs>>

icVars == <<icKind, icPc, icResult, icSnapId, icReturned, icNextSnap, icLive, icSnaps, icReverts,
            icTraced>>

flVars == <<flPaths, flContent, flFeatures, flFnSkip, flStmtSkip, flInL, flOut>>

taVars == <<taTxs, taI, taReported, taStatus>>

vars == <<smVars, covVars, trVars, srcVars, icVars, flVars, taVars>>

OtherThanSM == <<covVars, trVars, srcVars, icVars, flVars, taVars>>
OtherThanCov == <<smVars, trVars, srcVars, icVars, flVars, taVars>>
OtherThanTr == <<smVars, covVars, srcVars, icVars, flVars, taVars>>
OtherThanSrc == <<smVars, covVars, trVars, icVars, flVars, taVars>>
OtherThanIc == <<smVars, covVars, trVars, srcVars, flVars, taVars>>
OtherThanFl == <<smVars, covVars, trVars, srcVars, icVars, taVars>>
OtherThanTa == <<smVars, covVars, trVars, srcVars, icVars, flVars>>

(***************************************************************************)
(* SourceMap operations                                                    *)
(***************************************************************************)

\* SourceMap.parse(code): builds both tables.
SMParse ==
  /\ ~smParsed
  /\ smParsed' = TRUE
  /\ smPcMap' = BuildPCToInstructionIndices(smHex)
  /\ smRanges' = ParseRanges(smSrcMap)
  /\ UNCHANGED <<smHex, smSrcMap, smQuery, smResult>>
  /\ UNCHANGED OtherThanSM

\* SourceMap.pcToInstructionIndex(pc); a missing pc throws.
SMQueryPC ==
  /\ smParsed
  /\ \E pc \in 0..Len(smHex) :
       /\ smQuery' = <<"pc", pc>>
       /\ smResult' = PcToInstructionIndex(smPcMap, pc)
  /\ UNCHANGED <<smHex, smSrcMap, smPcMap, smRanges, smParsed>>
  /\ UNCHANGED OtherThanSM

\* SourceMap.instructionIndexToRange(i); a missing index throws.
SMQueryRange ==
  /\ smParsed
  /\ \E i \in 0..Len(Split(smSrcMap, ";")) :
       /\ smQuery' = <<"range", i>>
       /\ smResult' = InstructionIndexToRange(smRanges, i)
  /\ UNCHANGED <<smHex, smSrcMap, smPcMap, smRanges, smParsed>>
  /\ UNCHANGED OtherThanSM

SMNext == SMParse \/ SMQueryPC \/ SMQueryRange

\* Bytecode walker on generated code: bytes drawn from a few opcodes
\* (STOP, JUMPDEST, PUSH1, PUSH2).
MaxBytes == 3
OpBytes == {0, 91, 96, 97}
\* The Sources part of the state when a run does not use Sources.
\* An interceptor that has handled no request.
\* No filteredReport call modelled.
\* No traceAndReport call modelled.
TaIdle ==
  /\ taTxs = <<>>
  /\ taI = 1
  /\ taReported = {}
  /\ taStatus = "idle"

FlIdle ==
  /\ flPaths = {}
  /\ flContent = <<>>
  /\ flFeatures = <<>>
  /\ flFnSkip = <<>>
  /\ flStmtSkip = <<>>
  /\ flInL = <<>>
  /\ flOut = [done |-> FALSE, r |-> <<>>]

\* Requests handled concurrently: each awaits the provider at every step, so
\* the steps of different requests interleave.
MaxCalls == 2
Reqs == 1..MaxCalls

IcIdle ==
  /\ icKind = [id \in 1..MaxCalls |-> "none"]
  /\ icPc = [id \in 1..MaxCalls |-> "init"]
  /\ icResult = [id \in 1..MaxCalls |-> 0]
  /\ icSnapId = [id \in 1..MaxCalls |-> 0]
  /\ icReturned = [id \in 1..MaxCalls |-> 0]
  /\ icNextSnap = 1
  /\ icLive = <<>>
  /\ icSnaps = <<>>
  /\ icReverts = <<>>
  /\ icTraced = <<>>

SrcIdle ==
  /\ srcMaps = <<>>
  /\ srcKeys = <<>>
  /\ srcB2S = <<>>
  /\ srcBi2p = <<>>
  /\ srcP2cs = <<>>
  /\ srcUnique = 0
  /\ srcPhase = "idle"
  /\ srcQuery = <<>>
  /\ srcResult = -1
  /\ srcPrevKeys = <<>>
  /\ srcPrevB2S = <<>>
  /\ srcLookups = 0
  /\ srcAddrs = <<>>

\* The trace part of the state when a run does not reconstruct a trace.
TrIdle ==
  /\ trTo = <<>>
  /\ trCur = <<>>
  /\ trNext = <<>>
  /\ trI = 0
  /\ trStack = <<>>
  /\ trLast = <<>>
  /\ trErr = FALSE
  /\ trDone = TRUE

\* The coverage part of the state when a run exercises only SourceMap.
CovIdle ==
  /\ content = <<>>
  /\ offsetToPosition = <<>>
  /\ features = <<>>
  /\ rep = <<>>
  /\ prevRep = <<>>
  /\ lastLogs = <<>>
  /\ nCalls = 0
  /\ firstRep = <<>>
  /\ covPath = <<>>
  /\ covErr = "none"

SMInitCommon ==
  /\ smPcMap = <<>>
  /\ smRanges = <<>>
  /\ smParsed = FALSE
  /\ smQuery = <<"none", 0>>
  /\ smResult = NoResult

\* The SourceMap part of the state when a run exercises only Coverage.
SMIdle ==
  /\ smHex = <<>>
  /\ smSrcMap = <<>>
  /\ SMInitCommon

InitWalk ==
  /\ \E n \in 0..MaxBytes : \E bs \in [1..n -> OpBytes] : smHex = EncodeHex(bs)
  /\ smSrcMap = <<>>
  /\ SMInitCommon
  /\ CovIdle
  /\ TrIdle
  /\ SrcIdle
  /\ IcIdle
  /\ TaIdle
  /\ FlIdle

SpecWalk == InitWalk /\ [][SMNext]_vars

\* The two fixtures of test/source.js.
InitFixture ==
  /\ \/ smHex = ConstructorObject /\ smSrcMap = ConstructorSourceMap
     \/ smHex = RuntimeObject /\ smSrcMap = RuntimeSourceMap
  /\ SMInitCommon
  /\ CovIdle
  /\ TrIdle
  /\ SrcIdle
  /\ IcIdle
  /\ TaIdle
  /\ FlIdle

SpecFixture == InitFixture /\ [][SMNext]_vars

\* Source-map strings: up to MaxEntries ';'-separated entries, each with one
\* or three ':'-separated fields drawn from FieldStrs (empty inherits).
MaxEntries == 2
FieldStrs == {<<>>, <<"5">>, <<"-", "1">>}
RECURSIVE JoinWith(_, _)
JoinWith(parts, sep) ==
  IF parts = <<>> THEN <<>>
  ELSE IF Len(parts) = 1 THEN Head(parts)
  ELSE Head(parts) \o <<sep>> \o JoinWith(Tail(parts), sep)
EntryStrs == {JoinWith(fs, ":") : fs \in [1..1 -> FieldStrs] \cup [1..3 -> FieldStrs]}
SourceMapStrs ==
  {JoinWith(es, ";") : es \in UNION {[1..n -> EntryStrs] : n \in 1..MaxEntries}}
\* The inheritance example: "10:20:0;;5::".
ExampleSourceMap == <<"1", "0", ":", "2", "0", ":", "0", ";", ";", "5", ":", ":">>

InitParse ==
  /\ smHex = <<>>
  /\ smSrcMap \in SourceMapStrs \cup {ExampleSourceMap}
  /\ SMInitCommon
  /\ CovIdle
  /\ TrIdle
  /\ SrcIdle
  /\ IcIdle
  /\ TaIdle
  /\ FlIdle

ParseNext == SMParse \/ SMQueryRange
SpecParse == InitParse /\ [][ParseNext]_vars

(***************************************************************************)
(* Coverage: syntax tables (src/src/coverage.ts)                           *)
(***************************************************************************)

\* Features: {l: n}, {b: [id, alt]}, {f: id}, {s: id}.
LineF(n) == [k |-> "l", v |-> n]
BranchF(id, alt) == [k |-> "b", v |-> <<id, alt>>]
FnF(id) == [k |-> "f", v |-> id]
StmtF(id) == [k |-> "s", v |-> id]

\* TextEncoder.encode for the characters used in the modelled sources.
\* TextEncoder.encode of one code point (source text is a sequence of code
\* points; 10 is '\n'); a lone surrogate (U+D800..U+DFFF) is replaced by
\* U+FFFD.
Utf8(c) ==
  IF c >= 55296 /\ c < 57344 THEN <<239, 191, 189>>
  ELSE IF c < 128 THEN <<c>>
  ELSE IF c < 2048 THEN <<192 + c \div 64, 128 + (c % 64)>>
  ELSE IF c < 65536 THEN <<224 + c \div 4096, 128 + ((c \div 64) % 64), 128 + (c % 64)>>
  ELSE <<240 + c \div 262144, 128 + ((c \div 4096) % 64), 128 + ((c \div 64) % 64), 128 + (c % 64)>>
RECURSIVE EncodeUtf8(_)
EncodeUtf8(str) == IF str = <<>> THEN <<>> ELSE Utf8(Head(str)) \o EncodeUtf8(Tail(str))

\* Coverage.buildOffsetToPosition: returns offsetToPosition and the line layer
\* of features; features[i] = [{l: line}] where line is the line computed for
\* offset i + 1.
RECURSIVE OffsetsAcc(_, _, _, _)
OffsetsAcc(bytes, i, pos, feats) ==
  IF i >= Len(bytes) THEN [pos |-> pos, features |-> feats]
  ELSE LET location == pos[i]
           isNewline == bytes[i + 1] = 10
           line == location.line + (IF isNewline THEN 1 ELSE 0)
           column == IF isNewline THEN 0 ELSE location.column + 1
       IN OffsetsAcc(bytes, i + 1,
                     pos @@ ((i + 1) :> [line |-> line, column |-> column]),
                     feats @@ (i :> <<LineF(line)>>))
BuildOffsetToPosition(rawSource) ==
  OffsetsAcc(EncodeUtf8(rawSource), 0, (0 :> [line |-> 1, column |-> 0]), <<>>)

\* buildSyntaxMaps' fetchLocation: features[s].push(feature) for a node with
\* positive length starting at s.
PushFeature(feats, s, feature) == [feats EXCEPT ![s] = Append(@, feature)]
RECURSIVE ApplyPushes(_, _)
ApplyPushes(feats, pushes) ==
  IF pushes = <<>> THEN feats
  ELSE ApplyPushes(PushFeature(feats, Head(pushes)[1], Head(pushes)[2]), Tail(pushes))

\* lines = content.split('\n')
Lines(str) == Split(str, 10)

\* Branch 0 with two alternatives, functions 0 and 1 and statement 0: the
\* maps the AST walk produced for the features below.
BranchIds == {0}
BranchAlts == {0, 1}
FnIds == {0, 1}
StmtIds == {0}
SyntaxFeatures == {BranchF(0, 0), BranchF(0, 1), FnF(0), FnF(1), StmtF(0)}

\* JavaScript undefined and NaN as report counter values (real counters are
\* never negative).
Undefined == -1
NaN == -2

\* Coverage.freshReport: l is Array(lines.length).fill(0), indices
\* 0..lines.length-1; a larger index is undefined.
FreshReport(str) ==
  [l |-> [n \in 0..Len(Lines(str)) |-> IF n < Len(Lines(str)) THEN 0 ELSE Undefined],
   b |-> [id \in BranchIds |-> [a \in BranchAlts |-> 0]],
   f |-> [id \in FnIds |-> 0],
   s |-> [id \in StmtIds |-> 0]]

MaxContent == 2
MaxPushes == 2
Ops == {"JUMPDEST", "ADD"}

\* Source texts over 'a' (97) and '\n' (10).
Contents == UNION {[1..n -> {97, 10}] : n \in 1..MaxContent}

(***************************************************************************)
(* Coverage.filteredReport                                                 *)
(***************************************************************************)

\* Report paths: a source, a generated source ('#...') and a disambiguated
\* path ('...:k').
FilterPaths == {<<"A">>, <<"#", "g">>, <<"A", ":", "0">>}
StartsWithHash(path) == Len(path) > 0 /\ path[1] = "#"
IncludesColon(path) == \E i \in DOMAIN path : path[i] = ":"

\* significantFeature(f) with syntax.fnMap[id].skip and
\* syntax.statementMap[id].skip.
SignificantWithLine(f, fnSkip, stmtSkip) ==
  CASE f.k = "l" -> TRUE
    [] f.k = "b" -> TRUE
    [] f.k = "f" -> ~fnSkip[f.v]
    [] f.k = "s" -> ~stmtSkip[f.v]
SignificantFeature(f, fnSkip, stmtSkip) ==
  CASE f.k = "l" -> FALSE
    [] f.k = "b" -> TRUE
    [] f.k = "f" -> ~fnSkip[f.v]
    [] f.k = "s" -> ~stmtSkip[f.v]

\* syntax.features.reduce: for a byte with a significant feature,
\* l[fs[0].l] = statsEtc.l[fs[0].l].
RECURSIVE FilterLines(_, _, _, _, _, _)
FilterLines(feats, fnSkip, stmtSkip, inL, i, acc) ==
  IF i \notin DOMAIN feats THEN acc
  ELSE LET fs == feats[i]
       IN IF \E j \in DOMAIN fs : SignificantFeature(fs[j], fnSkip, stmtSkip)
          THEN FilterLines(feats, fnSkip, stmtSkip, inL, i + 1, (fs[1].v :> inL[fs[1].v]) @@ acc)
          ELSE FilterLines(feats, fnSkip, stmtSkip, inL, i + 1, acc)

\* Coverage.filteredReport: the l counters of the filtered report by path.
FilteredReport(paths, feats, fnSkip, stmtSkip, inL) ==
  [path \in {q \in paths : ~StartsWithHash(q) /\ ~IncludesColon(q)} |->
     FilterLines(feats, fnSkip, stmtSkip, inL, 0, <<>>)]

\* A report over the three paths, all with the syntax of one covered
\* source; its l counter of line n is n (distinct per line), the last index
\* undefined or NaN (see freshReport).
InitFilter ==
  /\ flPaths = FilterPaths
  /\ flContent \in Contents
  /\ LET built == BuildOffsetToPosition(flContent)
     IN \E n \in 0..MaxPushes :
          \E pushes \in [1..n -> (0..(Len(EncodeUtf8(flContent)) - 1)) \X SyntaxFeatures] :
            /\ \A p, q \in 1..n : p /= q => pushes[p][2] /= pushes[q][2]
            /\ flFeatures = ApplyPushes(built.features, pushes)
  /\ flFnSkip \in [FnIds -> BOOLEAN]
  /\ flStmtSkip \in [StmtIds -> BOOLEAN]
  /\ \E last \in {Undefined, NaN} :
       flInL = [n \in 0..Len(Lines(flContent)) |-> IF n < Len(Lines(flContent)) THEN n ELSE last]
  /\ flOut = [done |-> FALSE, r |-> <<>>]
  /\ SMIdle
  /\ CovIdle
  /\ TrIdle
  /\ SrcIdle
  /\ IcIdle
  /\ TaIdle

FilterCall ==
  /\ ~flOut.done
  /\ flOut' = [done |-> TRUE, r |-> FilteredReport(flPaths, flFeatures, flFnSkip, flStmtSkip, flInL)]
  /\ UNCHANGED <<flPaths, flContent, flFeatures, flFnSkip, flStmtSkip, flInL>>
  /\ UNCHANGED OtherThanFl

SpecFilter == InitFilter /\ [][FilterCall]_vars

(***************************************************************************)
(* Coverage.traceAndReport                                                 *)
(***************************************************************************)

\* Per transaction hash: Trace.crawl and this.report succeed, or the awaited
\* crawl rejects, or report throws (e.g. NoSourceMap, No bytecode for address).
TxOutcomes == {"ok", "crawlFails", "reportFails"}
MaxTxs == 4

InitTraceAndReport ==
  /\ taTxs \in UNION {[1..n -> TxOutcomes] : n \in 1..MaxTxs}
  /\ taI = 1
  /\ taReported = {}
  /\ taStatus = "pending"
  /\ SMIdle
  /\ CovIdle
  /\ TrIdle
  /\ SrcIdle
  /\ IcIdle
  /\ FlIdle

\* Sources.loadAddresses(map): each key of map, in for-in order, lowercased
\* and bound to its bytecode; map is a sequence of <<address, bytecode>>.
RECURSIVE LoadAddresses(_, _)
LoadAddresses(addrs, map) ==
  IF map = <<>> THEN addrs
  ELSE LoadAddresses((ToLower(Head(map)[1]) :> Head(map)[2]) @@ addrs, Tail(map))

\* Trace.crawl(provider, hash).addressToBytecodes for the i-th transaction:
\* the address it ran at, "0x" and 40 times the digit i, bound to the code
\* eth_getCode returned (one whose report throws for "reportFails").
TxAddress(i) == <<"0", "x">> \o [k \in 1..40 |-> CHOOSE c \in DOMAIN DigitOf : DigitOf[c] = i]
TxCode(outcome) == IF outcome = "reportFails" THEN <<"0", "6">> ELSE <<"6", "0">>
\* srcAddrs after the loop body for a transaction: loadAddresses runs once
\* the crawl has resolved, before this.report.
AddressesAfter(addrs, i, outcome) ==
  IF outcome = "crawlFails" THEN addrs ELSE LoadAddresses(addrs, <<<<TxAddress(i), TxCode(outcome)>>>>)

SrcOtherThanAddrs == <<srcMaps, srcKeys, srcB2S, srcBi2p, srcP2cs, srcUnique, srcPhase,
                       srcQuery, srcResult, srcPrevKeys, srcPrevB2S, srcLookups>>

\* One iteration of `for (const txHash of txHashes)` (crawl, loadAddresses,
\* report), or the return: no try/catch in the loop, so a throw rejects the
\* whole call.
TraceAndReportStep ==
  /\ taStatus = "pending"
  /\ IF taI > Len(taTxs)
     THEN /\ taStatus' = "resolved"
          /\ UNCHANGED <<taI, taReported, srcAddrs>>
     ELSE /\ srcAddrs' = AddressesAfter(srcAddrs, taI, taTxs[taI])
          /\ IF taTxs[taI] = "ok"
             THEN /\ taReported' = taReported \cup {taI}
                  /\ taI' = taI + 1
                  /\ UNCHANGED taStatus
             ELSE /\ taStatus' = "rejected"
                  /\ UNCHANGED <<taI, taReported>>
  /\ UNCHANGED taTxs
  /\ UNCHANGED <<smVars, covVars, trVars, SrcOtherThanAddrs, icVars, flVars>>

SpecTraceAndReport == InitTraceAndReport /\ [][TraceAndReportStep]_vars

(***************************************************************************)
(* Trace.followInfo (src/src/trace.ts)                                     *)
(***************************************************************************)

\* Stack words and memory words are 64-nibble hex strings (sequences of
\* nibbles); addresses are "0x" followed by 40 nibbles.
WordNibbles == 64
\* A word whose low 20 bytes hold the nibble a repeated and whose upper 12
\* bytes hold the nibble hi.
AddrWord(hi, a) == [k \in 1..WordNibbles |-> IF k <= 24 THEN hi ELSE a]
\* A word holding the small number v < 256.
SmallWord(v) == [k \in 1..WordNibbles |-> IF k = 63 THEN v \div 16
                                         ELSE IF k = 64 THEN v % 16 ELSE 0]

\* nthStackBack(stack, offset): stack[stack.length - offset - 1].
NthStackBack(stack, offset) == stack[Len(stack) - offset]

\* parseAddress(arg): '0x' + arg.slice(24).
ParseAddress(arg) == <<"0x">> \o JsSlice(arg, 24, Len(arg))

\* Number(parseUint(arg)) = BigInt('0x' + arg), as the minimum of its value
\* and bound: used with bound = memory length, where slice(2 * offset,
\* 2 * (offset + length)) is the same for every value >= bound (both ends
\* clamp to the memory length), so the slice is exact for any word.
RECURSIVE NibblesValue(_, _, _)
NibblesValue(ns, acc, bound) ==
  IF acc >= bound THEN bound
  ELSE IF ns = <<>> THEN acc
  ELSE NibblesValue(Tail(ns), 16 * acc + Head(ns), bound)
ParseUint(arg, bound) == NibblesValue(arg, 0, bound)

\* Frames: {address} or {bytecode}; a value is [def, null, v] so that
\* undefined (neither flag) and null (JSON-RPC's "to" of a contract
\* creation) are told apart from each other and from any string.
Undef == [def |-> FALSE, null |-> FALSE, v |-> <<>>]
Null == [def |-> FALSE, null |-> TRUE, v |-> <<>>]
Def(str) == [def |-> TRUE, null |-> FALSE, v |-> str]
AddressFrame(a) == [address |-> a, bytecode |-> Undef]
BytecodeFrame(b) == [address |-> Undef, bytecode |-> b]
\* JavaScript truthiness of a string value.
Truthy(x) == x.def /\ x.v /= <<>>

\* The TaggedLog yielded for log: { bytecode: top.bytecode, ...log } when
\* top.bytecode is truthy, else { address: top.address, ...log }.
TagLog(top, log) ==
  IF Truthy(top.bytecode)
  THEN [address |-> Undef, bytecode |-> top.bytecode, log |-> log]
  ELSE [address |-> top.address, bytecode |-> Undef, log |-> log]

CallOps == {"CALL", "CALLCODE", "DELEGATECALL", "STATICCALL"}
CreateOps == {"CREATE", "CREATE2"}

\* The switch with no frame popped when the depth decreases.
FollowStackNoPop(stack, log, postDepth) ==
  CASE log.op \in CallOps ->
         IF postDepth = log.depth + 1
         THEN Append(stack, AddressFrame(Def(ParseAddress(NthStackBack(log.stack, 1)))))
         ELSE stack
    [] log.op \in CreateOps ->
         IF postDepth /= log.depth + 1 THEN "error"
         ELSE LET memory == log.memory
                  offset == ParseUint(NthStackBack(log.stack, 1), Len(memory) + 1)
                  length == ParseUint(NthStackBack(log.stack, 2), Len(memory) + 1)
              IN Append(stack, BytecodeFrame(Def(JsSlice(memory, 2 * offset, 2 * (offset + length)))))
    [] OTHER ->
         IF ~(postDepth <= log.depth) THEN "error"
         ELSE stack

\* The switch on log.op: the new frame stack, or "error" where assume throws.
FollowStack(stack, log, postDepth) ==
  CASE log.op \in CallOps ->
         IF postDepth = log.depth + 1
         THEN Append(stack, AddressFrame(Def(ParseAddress(NthStackBack(log.stack, 1)))))
         ELSE stack
    [] log.op \in CreateOps ->
         IF postDepth /= log.depth + 1 THEN "error"
         ELSE LET memory == log.memory
                  offset == ParseUint(NthStackBack(log.stack, 1), Len(memory) + 1)
                  length == ParseUint(NthStackBack(log.stack, 2), Len(memory) + 1)
              IN Append(stack, BytecodeFrame(Def(JsSlice(memory, 2 * offset, 2 * (offset + length)))))
    [] OTHER ->
         IF ~(postDepth <= log.depth) THEN "error"
         ELSE IF postDepth < log.depth THEN SubSeq(stack, 1, Len(stack) - 1)
         ELSE stack

\* The modelled structLogs: opcodes of every class, depths 1..MaxDepth, and
\* stacks (bottom first) for a call to an address word with nonzero upper
\* bytes, and for creates of 2 bytes at offset 0, of 1 byte at offset 1, and
\* of 1 byte at offset 32, the end of the one-word memory (the EVM expands
\* memory with zeros, so the init code is STOP and runs one step at
\* depth + 1, but pre.memory does not hold it). A create of 0 bytes runs no
\* code and is not followed by a deeper log, so create stacks have a
\* nonzero length.
MaxDepth == 3
MaxTrace == 3
TraceOps == {"CALL", "CREATE", "ADD"}
MemoryWords == <<[k \in 1..WordNibbles |-> IF k = 1 THEN 6 ELSE IF k = 4 THEN 1 ELSE 0]>>
CreateShapes ==
  {<<SmallWord(2), SmallWord(0), SmallWord(0)>>,
   <<SmallWord(1), SmallWord(1), SmallWord(0)>>,
   <<SmallWord(1), SmallWord(32), SmallWord(0)>>}
StackShapes == {<<SmallWord(0), AddrWord(15, 10), SmallWord(5)>>} \cup CreateShapes
\* pre.memory.join('')
RECURSIVE JoinMemory(_)
JoinMemory(words) == IF words = <<>> THEN <<>> ELSE Head(words) \o JoinMemory(Tail(words))
StructLogs ==
  {l \in [op : TraceOps, depth : 1..MaxDepth, stack : StackShapes, memory : {JoinMemory(MemoryWords)}] :
     l.op \in CreateOps => l.stack \in CreateShapes}
\* txData.to from eth_getTransactionByHash: an address, or null for a
\* contract creation.
TxTo == {Def(<<"0x">> \o [k \in 1..40 |-> 12]), Null}

\* The trace is read one entry ahead: Init picks structLogs[0] and [1];
\* each step picks the entry after the next one, if any.
InitTrace ==
  /\ trTo \in TxTo
  /\ trStack = <<AddressFrame(trTo)>>
  /\ \E first \in StructLogs, second \in StructLogs \cup {<<>>} :
       /\ trCur = first
       /\ trNext = second
  /\ trI = 0
  /\ trLast = <<>>
  /\ trErr = FALSE
  /\ trDone = FALSE
  /\ SMIdle
  /\ CovIdle
  /\ SrcIdle
  /\ IcIdle
  /\ TaIdle
  /\ FlIdle

\* One iteration of the loop of followInfo: yield the tagged log, then
\* update the frame stack (or throw). top is undefined on an empty stack,
\* where top.bytecode throws. The entry read ahead is drawn from logs.
TraceStepFrom(logs) ==
  /\ ~trDone
  /\ LET log == trCur
         postDepth == IF trNext /= <<>> THEN trNext.depth ELSE log.depth
     IN IF trStack = <<>>
        THEN /\ trErr' = TRUE
             /\ trDone' = TRUE
             /\ UNCHANGED <<trCur, trNext, trI, trStack, trLast>>
        ELSE LET ns == FollowStack(trStack, log, postDepth)
             IN /\ trLast' = TagLog(trStack[Len(trStack)], log)
                /\ IF ns = "error"
                   THEN /\ trErr' = TRUE
                        /\ trDone' = TRUE
                        /\ UNCHANGED <<trCur, trNext, trI, trStack>>
                   ELSE /\ trStack' = ns
                        /\ trErr' = FALSE
                        /\ trI' = trI + 1
                        /\ IF trNext = <<>>
                           THEN /\ trDone' = TRUE
                                /\ UNCHANGED <<trCur, trNext>>
                           ELSE /\ trDone' = FALSE
                                /\ trCur' = trNext
                                /\ IF trI + 2 < MaxTrace
                                   THEN trNext' \in logs \cup {<<>>}
                                   ELSE trNext' = <<>>
  /\ UNCHANGED trTo
  /\ UNCHANGED OtherThanTr

TraceStep == TraceStepFrom(StructLogs)

SpecTrace == InitTrace /\ [][TraceStep]_vars

\* A call and its return: CALL at depth 1 to the address word of the first
\* stack shape (callee 0x aa..aa), RETURN at depth 2, then opcodes at depth 1.
CallLog == [op |-> "CALL", depth |-> 1,
            stack |-> <<SmallWord(0), AddrWord(15, 10), SmallWord(5)>>,
            memory |-> JoinMemory(MemoryWords)]
ReturnLogs == [op : {"RETURN"}, depth : {2}, stack : StackShapes, memory : {JoinMemory(MemoryWords)}]
TailOps == {"ADD", "RETURN", "STOP"}
TailLogs == [op : TailOps, depth : {1}, stack : StackShapes, memory : {JoinMemory(MemoryWords)}]
\* tx.to: another contract, or the callee itself.
CallReturnTo == {Def(<<"0x">> \o [k \in 1..40 |-> 12]), Def(<<"0x">> \o [k \in 1..40 |-> 10])}

InitCallReturn ==
  /\ trTo \in CallReturnTo
  /\ trStack = <<AddressFrame(trTo)>>
  /\ trCur = CallLog
  /\ trNext \in ReturnLogs
  /\ trI = 0
  /\ trLast = <<>>
  /\ trErr = FALSE
  /\ trDone = FALSE
  /\ SMIdle
  /\ CovIdle
  /\ SrcIdle
  /\ IcIdle
  /\ TaIdle
  /\ FlIdle

CallReturnStep == TraceStepFrom(TailLogs)
SpecCallReturn == InitCallReturn /\ [][CallReturnStep]_vars

\* Well-formed traces: the top-level frame is at depth 1, the depth changes by
\* at most one per step and increases only right after a call or create.
FirstDepth == 1
WellFormedPair(a, b) ==
  /\ b.depth - a.depth \in {-1, 0, 1}
  /\ b.depth > a.depth => a.op \in CallOps \cup CreateOps

InitWellFormed ==
  /\ InitTrace
  /\ trCur.depth = FirstDepth
  /\ trNext /= <<>> => WellFormedPair(trCur, trNext)

WellFormedStep ==
  /\ TraceStep
  /\ trNext' /= <<>> => WellFormedPair(trCur', trNext')

SpecWellFormed == InitWellFormed /\ [][WellFormedStep]_vars

(***************************************************************************)
(* Sources (src/unnamed/part_000)                                          *)
(***************************************************************************)

\* String(i) for the path suffix `${src.path}:${i}`.
DigitChar(d) == CASE d = 0 -> "0" [] d = 1 -> "1" [] d = 2 -> "2" [] d = 3 -> "3"
                  [] d = 4 -> "4" [] d = 5 -> "5" [] d = 6 -> "6" [] d = 7 -> "7"
                  [] d = 8 -> "8" [] d = 9 -> "9"
RECURSIVE NumToStr(_)
NumToStr(i) == IF i < 10 THEN <<DigitChar(i)>> ELSE NumToStr(i \div 10) \o <<DigitChar(i % 10)>>
SuffixedPath(path, i) == path \o <<":">> \o NumToStr(i)

\* The search of indexBytecodeToSourceMap over src.path:0 .. src.path:unique-1:
\* <<path>> on a content match, <<>> when none matches, "crash" when
\* p2cs[maybePath] is undefined (reading .input of undefined throws).
RECURSIVE SearchSuffixes(_, _, _, _)
SearchSuffixes(p2cs, src, i, unique) ==
  IF i >= unique THEN <<>>
  ELSE LET maybePath == SuffixedPath(src.path, i)
       IN IF maybePath \notin DOMAIN p2cs THEN "crash"
          ELSE IF p2cs[maybePath].content = src.content THEN <<maybePath>>
          ELSE SearchSuffixes(p2cs, src, i + 1, unique)

\* One compiler source of indexBytecodeToSourceMap; st = [si2p, p2cs, unique, crash].
IndexSource(st, src) ==
  IF src.path \notin DOMAIN st.p2cs
  THEN [st EXCEPT !.si2p = (src.id :> src.path) @@ @,
                  !.p2cs = (src.path :> src) @@ @]
  ELSE IF st.p2cs[src.path].content = src.content
  THEN [st EXCEPT !.si2p = (src.id :> src.path) @@ @]
  ELSE LET found == SearchSuffixes(st.p2cs, src, 0, st.unique)
       IN IF found = "crash" THEN [st EXCEPT !.crash = TRUE]
          ELSE IF found /= <<>>
          THEN [st EXCEPT !.si2p = (src.id :> found[1]) @@ @]
          ELSE LET path == SuffixedPath(src.path, st.unique)
               IN [st EXCEPT !.unique = @ + 1,
                             !.si2p = (src.id :> path) @@ @,
                             !.p2cs = (path :> [src EXCEPT !.path = path]) @@ @]

RECURSIVE IndexSources(_, _)
IndexSources(st, srcs) ==
  IF srcs = <<>> \/ st.crash THEN st ELSE IndexSources(IndexSource(st, Head(srcs)), Tail(srcs))

\* Sources.indexBytecodeToSourceMap(bytecode) on s = [b2s, bi2p, p2cs, unique, crash].
IndexBytecodeToSourceMap(maps, s, bytecode) ==
  LET si2p0 == IF bytecode \in DOMAIN s.bi2p THEN s.bi2p[bytecode] ELSE <<>>
      r == IndexSources([si2p |-> si2p0, p2cs |-> s.p2cs, unique |-> s.unique, crash |-> FALSE],
                        maps[s.b2s[bytecode]].sources)
  IN [s EXCEPT !.bi2p = (bytecode :> r.si2p) @@ @, !.p2cs = r.p2cs,
               !.unique = r.unique, !.crash = r.crash]

\* Sources.initPathsAndPathToCompilerSources: every key, in insertion order.
RECURSIVE InitPaths(_, _, _)
InitPaths(maps, s, keys) ==
  IF keys = <<>> \/ s.crash THEN s
  ELSE InitPaths(maps, IndexBytecodeToSourceMap(maps, s, Head(keys)), Tail(keys))

\* The length-42 floor of the prefix rule.
PrefixFloor == 42

\* The loop of the same-length rule: a mismatch on a position where the
\* known bytecode is not '0'.
MismatchOnNonZeroByteSwapped(b, k) == \E i \in 1..Len(b) : b[i] /= k[i] /\ b[i] /= "0"
MismatchOnNonZeroByte(b, k) == \E i \in 1..Len(b) : b[i] /= k[i] /\ k[i] /= "0"

\* The fuzzy scan of bytecodeToSourceMap over the known keys in order: the
\* first key accepted, or <<>>.
RECURSIVE FuzzyScan(_, _)
FuzzyScan(keys, b) ==
  IF keys = <<>> THEN <<>>
  ELSE LET k == Head(keys)
       IN IF Len(b) = Len(k)
          THEN IF ~MismatchOnNonZeroByte(b, k) THEN <<k>> ELSE FuzzyScan(Tail(keys), b)
          ELSE IF Len(b) > Len(k) /\ Len(k) > PrefixFloor
          THEN IF SubSeq(b, 1, Len(k)) = k THEN <<k>> ELSE FuzzyScan(Tail(keys), b)
          ELSE FuzzyScan(Tail(keys), b)

\* Object key order of for...in: keys that are array indices (canonical
\* decimal numbers below 2^32 - 1) first, in ascending numeric order, then
\* the other keys in insertion order.
DecimalChars == {"0", "1", "2", "3", "4", "5", "6", "7", "8", "9"}
MaxIndexKey == <<"4", "2", "9", "4", "9", "6", "7", "2", "9", "5">>
DigitLess(a, b) == DigitOf[a] < DigitOf[b]
\* a < b for equal-length decimal strings.
SameLenLess(a, b) ==
  \E i \in 1..Len(a) : (\A j \in 1..(i - 1) : a[j] = b[j]) /\ DigitLess(a[i], b[i])
IsArrayIndex(k) ==
  /\ k /= <<>>
  /\ \A i \in DOMAIN k : k[i] \in DecimalChars
  /\ Len(k) = 1 \/ k[1] /= "0"
  /\ Len(k) < 10 \/ (Len(k) = 10 /\ SameLenLess(k, MaxIndexKey))
NotArrayIndex(k) == ~IsArrayIndex(k)
IndexKeyLess(a, b) == Len(a) < Len(b) \/ (Len(a) = Len(b) /\ SameLenLess(a, b))
ForInOrder(keys) ==
  SortSeq(SelectSeq(keys, IsArrayIndex), IndexKeyLess) \o SelectSeq(keys, NotArrayIndex)

\* The fuzzy branch of bytecodeToSourceMap: the first known key accepted is
\* cached and indexed (insertAndIndexBytecodeAndSourceMap), else it throws.
CachedResult(map, r, keys) ==
  [map |-> map, s |-> [r EXCEPT !.crash = FALSE], keys |-> keys,
   err |-> IF r.crash THEN "typeError" ELSE "none"]
FuzzyResult(maps, s, keys, b, m) ==
  IF m = <<>>
  THEN [map |-> -1, s |-> s, keys |-> keys, err |-> "noSourceMap"]
  ELSE CachedResult(s.b2s[m[1]],
                    IndexBytecodeToSourceMap(maps, [s EXCEPT !.b2s = (b :> s.b2s[m[1]]) @@ @], b),
                    Append(keys, b))
\* Sources.bytecodeToSourceMap(bytecode) on s = [b2s, bi2p, p2cs, unique,
\* crash, ...] with keys the keys of b2s in insertion order: the SourceMap
\* (by number), the state and keys after the call, and what it threw
\* ("none", "noSourceMap", or "typeError" from indexing the cached key).
BytecodeToSourceMap(maps, s, keys, b) ==
  IF b \in DOMAIN s.b2s
  THEN [map |-> s.b2s[b], s |-> s, keys |-> keys, err |-> "none"]
  ELSE FuzzyResult(maps, s, keys, b, FuzzyScan(ForInOrder(keys), b))

\* Hex characters of the modelled bytecodes ("60" and "6" are array-index
\* keys, "06" and "00" are not); long bytecodes share a 42-character stem.
HexChars == {"6", "0"}
Stem == [k \in 1..PrefixFloor |-> "f"]
ShortCodes == [1..2 -> HexChars]
LongCodes == {Stem} \cup {Stem \o t : t \in [1..1 -> HexChars] \cup [1..2 -> HexChars]}
MaxKnown == 2
MaxLookups == 2
MaxSources == 2
SourcePaths == {<<"A">>, <<"B">>}
SourceContents == {"x", "y"}

\* Distinct-key sequences of at most MaxKnown keys from a set.
KeySeqs(codes) ==
  {ks \in UNION {[1..n -> codes] : n \in 0..MaxKnown} :
     \A i, j \in DOMAIN ks : i /= j => ks[i] /= ks[j]}

SrcState == [b2s |-> srcB2S, bi2p |-> srcBi2p, p2cs |-> srcP2cs, unique |-> srcUnique,
             crash |-> FALSE, addrs |-> srcAddrs]

\* new Sources(bytecodeToSourceMaps): the constructor indexes every key in
\* for...in order.
SrcConstruct ==
  /\ srcPhase = "new"
  /\ LET r == InitPaths(srcMaps, SrcState, ForInOrder(srcKeys))
     IN /\ srcBi2p' = r.bi2p
        /\ srcP2cs' = r.p2cs
        /\ srcUnique' = r.unique
        /\ srcPhase' = IF r.crash THEN "error" ELSE "ready"
  /\ UNCHANGED <<srcMaps, srcKeys, srcB2S, srcQuery, srcResult, srcPrevKeys, srcPrevB2S, srcLookups,
                 srcAddrs>>
  /\ UNCHANGED OtherThanSrc

\* Sources.bytecodeToSourceMap(bytecode) as a call: the SourceMap number, or
\* -1 when it threw NoSourceMap, or -2 when indexing the cached key threw
\* (the object keeps the partial update and stays usable).
SrcLookupEnd(b, r) ==
  /\ srcQuery' = b
  /\ srcPrevKeys' = srcKeys
  /\ srcPrevB2S' = srcB2S
  /\ srcLookups' = srcLookups + 1
  /\ srcResult' = CASE r.err = "none" -> r.map
                    [] r.err = "noSourceMap" -> -1
                    [] OTHER -> -2
  /\ srcKeys' = r.keys
  /\ srcB2S' = r.s.b2s
  /\ srcBi2p' = r.s.bi2p
  /\ srcP2cs' = r.s.p2cs
  /\ srcUnique' = r.s.unique
SrcLookup(codes) ==
  /\ srcPhase = "ready"
  /\ srcLookups < MaxLookups
  /\ \E b \in codes : SrcLookupEnd(b, BytecodeToSourceMap(srcMaps, SrcState, srcKeys, b))
  /\ UNCHANGED <<srcMaps, srcPhase, srcAddrs>>
  /\ UNCHANGED OtherThanSrc

SrcInitCommon ==
  /\ srcBi2p = <<>>
  /\ srcP2cs = <<>>
  /\ srcUnique = 0
  /\ srcPhase = "new"
  /\ srcQuery = <<>>
  /\ srcResult = -1
  /\ srcPrevKeys = <<>>
  /\ srcPrevB2S = <<>>
  /\ srcLookups = 0
  /\ srcAddrs = <<>>
  /\ SMIdle
  /\ CovIdle
  /\ TrIdle
  /\ IcIdle
  /\ TaIdle
  /\ FlIdle

\* Fuzzy lookups: known short and long bytecodes, each with its own
\* SourceMap over one compiler source.
LookupCodes == ShortCodes \cup LongCodes
InitLookup ==
  /\ \E ks \in KeySeqs(LookupCodes) :
       /\ srcKeys = ks
       /\ srcB2S = [k \in {ks[i] : i \in DOMAIN ks} |-> CHOOSE i \in DOMAIN ks : ks[i] = k]
       /\ srcMaps = [i \in DOMAIN ks |->
                      [bytecode |-> ks[i], sources |-> <<[path |-> <<"A">>, content |-> "x", id |-> 0]>>]]
  /\ SrcInitCommon

LookupNext == SrcConstruct \/ SrcLookup(LookupCodes)
SpecLookup == InitLookup /\ [][LookupNext]_vars

\* Path disambiguation: short bytecodes whose SourceMaps carry up to
\* MaxSources compiler sources (ids 0, 1, ...) over shared nominal paths.
CompilerSourceSeqs ==
  {ss \in UNION {[1..n -> SourcePaths \X SourceContents] : n \in 0..MaxSources} :
     \A i, j \in DOMAIN ss : i /= j => ss[i][1] /= ss[j][1]}
InitIndex ==
  /\ \E ks \in KeySeqs(ShortCodes) :
       \E srcs \in [DOMAIN ks -> CompilerSourceSeqs] :
         /\ srcKeys = ks
         /\ srcB2S = [k \in {ks[i] : i \in DOMAIN ks} |-> CHOOSE i \in DOMAIN ks : ks[i] = k]
         /\ srcMaps = [i \in DOMAIN ks |->
                        [bytecode |-> ks[i],
                         sources |-> [j \in DOMAIN srcs[i] |->
                                        [path |-> srcs[i][j][1], content |-> srcs[i][j][2], id |-> j - 1]]]]
  /\ SrcInitCommon

IndexNext == SrcConstruct \/ SrcLookup(ShortCodes)
SpecIndex == InitIndex /\ [][IndexNext]_vars

(***************************************************************************)
(* Coverage.report                                                         *)
(***************************************************************************)

\* x++ in JavaScript: undefined and NaN become NaN.
Incr(v) == IF v >= 0 THEN v + 1 ELSE NaN
\* JavaScript falsiness of the let-bound fn tracker (undefined or id 0).
Falsy(v) == v = Undefined \/ v = 0

\* One feature of the inner loop; c = [st, line, branch, fn, err].
FeatureStep(c, feature, op) ==
  CASE feature.k = "l" ->
         IF c.line /= feature.v
         THEN [c EXCEPT !.line = feature.v, !.st.l[feature.v] = Incr(@)]
         ELSE c
    [] feature.k = "b" ->
         IF c.branch = <<>>
         THEN [c EXCEPT !.branch = feature.v,
                        !.st.b[feature.v[1]][feature.v[2]] = Incr(@)]
         ELSE c
    [] feature.k = "f" ->
         IF op /= "JUMPDEST" THEN c
         ELSE IF Falsy(c.fn)
         THEN [c EXCEPT !.fn = feature.v, !.st.f[feature.v] = Incr(@)]
         ELSE c
    [] feature.k = "s" -> [c EXCEPT !.st.s[feature.v] = Incr(@)]

RECURSIVE FeaturesLoop(_, _, _)
FeaturesLoop(c, fs, op) ==
  IF fs = <<>> THEN c ELSE FeaturesLoop(FeatureStep(c, Head(fs), op), Tail(fs), op)

\* The byte loop over [start, start + length): a byte with no features
\* ends the loop on a '#' path, and otherwise iterating undefined throws a
\* TypeError.
RECURSIVE BytesLoop(_, _, _, _, _, _)
BytesLoop(c, feats, i, stop, op, hashPath) ==
  IF i >= stop THEN c
  ELSE IF i \notin DOMAIN feats
  THEN IF hashPath THEN c ELSE [c EXCEPT !.err = "typeError"]
  ELSE BytesLoop(FeaturesLoop(c, feats[i], op), feats, i + 1, stop, op, hashPath)

\* log.bytecode || this.sources.addressToBytecode(log.address); a tag is
\* [kind, v]: a bytecode (address undefined) or an address (bytecode
\* undefined). ok = FALSE when addressToBytecode throws.
LogBytecode(addrs, tag) ==
  IF tag.kind = "bytecode" /\ tag.v /= <<>> THEN [ok |-> TRUE, v |-> tag.v]
  ELSE IF tag.kind = "address" /\ ToLower(tag.v) \in DOMAIN addrs
  THEN [ok |-> TRUE, v |-> addrs[ToLower(tag.v)]]
  ELSE [ok |-> FALSE, v |-> <<>>]

\* The ranges of one log: count the bytes of its range in the stats of
\* the path it resolves to, stopping at what the byte loop threw.
CountLoop(c, loop) == [c EXCEPT !.rep = loop.st, !.err = loop.err]
CountPath(c, feats, log, range, path) ==
  CountLoop(c, BytesLoop([st |-> c.rep, line |-> Undefined, branch |-> <<>>, fn |-> Undefined,
                          err |-> "none"],
                         feats, range.start, range.start + range.length, log.op,
                         StartsWithHash(path)))

\* if (range.length > 0): this.sources.compilerSourcePath(sourceMap.bytecode,
\* range.index), which throws when the index has no path (and reading an
\* index of undefined throws a TypeError).
CountRange(c, sm, feats, log, range) ==
  IF range.length <= 0 THEN c
  ELSE IF sm.bytecode \notin DOMAIN c.s.bi2p THEN [c EXCEPT !.err = "typeError"]
  ELSE IF range.index \notin DOMAIN c.s.bi2p[sm.bytecode] THEN [c EXCEPT !.err = "noPath"]
  ELSE CountPath(c, feats, log, range, c.s.bi2p[sm.bytecode][range.index])

\* sourceMap.pcToRange(log.pc): No instruction at byte, or No source range
\* for instruction.
ResolvePc(c, sm, feats, log) ==
  IF log.pc \notin DOMAIN sm.pcToIndex THEN [c EXCEPT !.err = "noInstruction"]
  ELSE IF sm.pcToIndex[log.pc] \notin DOMAIN sm.indexToRange THEN [c EXCEPT !.err = "noRange"]
  ELSE CountRange(c, sm, feats, log, sm.indexToRange[sm.pcToIndex[log.pc]])

\* this.sources.bytecodeToSourceMap(bytecode), whose cache updates stay
\* even when it throws.
ResolvedMap(c, maps, feats, log, r) ==
  IF r.err /= "none" THEN [c EXCEPT !.s = r.s, !.keys = r.keys, !.err = r.err]
  ELSE ResolvePc([c EXCEPT !.s = r.s, !.keys = r.keys], maps[r.map], feats, log)

ResolveBytecode(c, maps, feats, log, bc) ==
  IF ~bc.ok THEN [c EXCEPT !.err = "noBytecode"]
  ELSE ResolvedMap(c, maps, feats, log, BytecodeToSourceMap(maps, c.s, c.keys, bc.v))

\* The body of the loop for one TaggedLog [tag, pc, op] over one covered
\* source; c = [rep, s, keys, err] holds the stats of that source, the
\* Sources state and b2s keys, and the first exception thrown ("none" while
\* the loop runs; later logs are not processed once it is set). The
\* trackers line, branch, fn start undefined (branch holds an array,
\* written <<>> while undefined).
ReportLog(c, maps, feats, log) ==
  IF c.err /= "none" THEN c
  ELSE ResolveBytecode(c, maps, feats, log, LogBytecode(c.s.addrs, log.tag))

RECURSIVE ReportLogs(_, _, _, _)
ReportLogs(c, maps, feats, logs) ==
  IF logs = <<>> THEN c ELSE ReportLogs(ReportLog(c, maps, feats, Head(logs)), maps, feats, Tail(logs))

(***************************************************************************)
(* Coverage specification                                                  *)
(***************************************************************************)

\* The covered contract: its bytecode, a bytecode matching it fuzzily, an
\* unknown bytecode, and the address loadAddresses maps to it.
CovCode == <<"6", "0">>
CovFuzzyCode == <<"6", "6">>
CovUnknownCode == <<"0", "6">>
CovAddressKey == <<"A", "B">>
\* Its SourceMap: one instruction per source range, at pc
\* 100 * (index + 1) + 10 * start + length and with that instruction index;
\* the ranges within the n content bytes of source 0, one past the end, one
\* in a source index with no compiler source; and pc NoRangePc whose
\* instruction has no range.
InRanges(n) ==
  {r \in [start : 0..(n - 1), length : 0..n, index : {0}] : r.start + r.length <= n}
AllRanges(n) ==
  InRanges(n) \cup {[start |-> 0, length |-> n + 1, index |-> 0],
                    [start |-> 0, length |-> 1, index |-> 1]}
PcOf(r) == 100 * (r.index + 1) + 10 * r.start + r.length
NoRangePc == 1
CovSourceMap(path, str) ==
  LET n == Len(EncodeUtf8(str))
  IN [bytecode |-> CovCode,
      sources |-> <<[path |-> path, content |-> str, id |-> 0]>>,
      pcToIndex |-> [pc \in {PcOf(r) : r \in AllRanges(n)} \cup {NoRangePc} |-> pc],
      indexToRange |-> [i \in {PcOf(r) : r \in AllRanges(n)} |->
                          CHOOSE r \in AllRanges(n) : PcOf(r) = i]]

BytecodeTag(b) == [kind |-> "bytecode", v |-> b]
AddressTag(a) == [kind |-> "address", v |-> a]
\* Logs of the covered bytecode at instructions whose ranges lie in the content.
LogsFor(str) ==
  LET n == Len(EncodeUtf8(str))
  IN {[tag |-> BytecodeTag(CovCode), pc |-> PcOf(r), op |-> op] : r \in InRanges(n), op \in Ops}
\* A report call on one log or on two consecutive logs.
LogCounts == {1, 2}
LogSeqsFor(str) == UNION {[1..n -> LogsFor(str)] : n \in LogCounts}

\* new Sources({[CovCode]: sourceMap}) and loadAddresses({CovAddressKey: CovCode}).
CovSources(path, str) ==
  LET maps == <<CovSourceMap(path, str)>>
      s == InitPaths(maps, [b2s |-> (CovCode :> 1), bi2p |-> <<>>, p2cs |-> <<>>,
                            unique |-> 0, crash |-> FALSE], <<CovCode>>)
  IN /\ srcMaps = maps
     /\ srcKeys = <<CovCode>>
     /\ srcB2S = s.b2s
     /\ srcBi2p = s.bi2p
     /\ srcP2cs = s.p2cs
     /\ srcUnique = s.unique
     /\ srcPhase = "ready"
     /\ srcQuery = <<>>
     /\ srcResult = -1
     /\ srcPrevKeys = <<>>
     /\ srcPrevB2S = <<>>
     /\ srcLookups = 0
     /\ srcAddrs = (ToLower(CovAddressKey) :> CovCode)

\* Coverage.cover over one source path: offsetToPosition and line layer,
\* then pushes more syntax features the AST walk pushes (any AST).
CovInitWith(paths, maxPushes) ==
  /\ covPath \in paths
  /\ content \in Contents
  /\ LET built == BuildOffsetToPosition(content)
     IN /\ offsetToPosition = built.pos
        /\ \E n \in 0..maxPushes :
             \E pushes \in [1..n -> (0..(Len(EncodeUtf8(content)) - 1)) \X SyntaxFeatures] :
               \* each AST node is inserted once, with its own feature
               /\ \A p, q \in 1..n : p /= q => pushes[p][2] /= pushes[q][2]
               /\ features = ApplyPushes(built.features, pushes)
  /\ rep = FreshReport(content)
  /\ prevRep = rep
  /\ lastLogs = <<>>
  /\ nCalls = 0
  /\ firstRep = rep
  /\ covErr = "none"
  /\ CovSources(covPath, content)
  /\ SMIdle
  /\ TrIdle
  /\ IcIdle
  /\ TaIdle
  /\ FlIdle

InitCov == CovInitWith({<<"A">>}, MaxPushes)

\* report(logs, continueReport) with the logs of the call: the report and
\* the Sources caches keep what was done before an exception.
ReportCallEnd(c) ==
  /\ rep' = c.rep
  /\ covErr' = c.err
  /\ prevRep' = rep
  /\ srcKeys' = c.keys
  /\ srcB2S' = c.s.b2s
  /\ srcBi2p' = c.s.bi2p
  /\ srcP2cs' = c.s.p2cs
  /\ srcUnique' = c.s.unique
  /\ UNCHANGED <<srcMaps, srcPhase, srcQuery, srcResult, srcPrevKeys, srcPrevB2S, srcLookups,
                 srcAddrs>>
  /\ UNCHANGED <<content, offsetToPosition, features, covPath>>
  /\ UNCHANGED <<smVars, trVars, icVars, flVars, taVars>>
ReportCall(logs) ==
  ReportCallEnd(ReportLogs([rep |-> rep, s |-> SrcState, keys |-> srcKeys, err |-> "none"],
                           srcMaps, features, logs))

\* report(logs, continueReport) on the fresh report.
ReportFirstFrom(seqs) ==
  /\ nCalls = 0
  /\ \E logs \in seqs :
       /\ ReportCall(logs)
       /\ lastLogs' = logs
  /\ nCalls' = 1
  /\ firstRep' = rep'

ReportFirst == ReportFirstFrom(LogSeqsFor(content))

\* report(logs, continueReport) again with the same logs.
ReportRepeat ==
  /\ nCalls = 1
  /\ ReportCall(lastLogs)
  /\ nCalls' = 2
  /\ UNCHANGED <<lastLogs, firstRep>>

\* One report call on a fresh report.
SpecReport == InitCov /\ [][ReportFirst]_vars

\* A second call with the same logs on the same report.
CovNext == ReportFirst \/ ReportRepeat

SpecReportTwice == InitCov /\ [][CovNext]_vars

\* Log resolution: logs tagged with the covered bytecode, a fuzzy match of
\* it, an unknown bytecode, the covered address in another case, an unknown
\* address, or neither; at every pc of the SourceMap and one it lacks; over
\* a '#' generated path or a plain one. A call has one such log, or one in
\* range followed by one such log.
ResolveTags ==
  {BytecodeTag(CovCode), BytecodeTag(CovFuzzyCode), BytecodeTag(CovUnknownCode),
   BytecodeTag(<<>>), AddressTag(<<"A", "b">>), AddressTag(<<"c">>)}
ResolveLogsFor(str) ==
  LET n == Len(EncodeUtf8(str))
  IN [tag : ResolveTags, pc : {PcOf(r) : r \in AllRanges(n)} \cup {NoRangePc, 0}, op : {"ADD"}]
ResolveSeqsFor(str) ==
  {<<lg>> : lg \in ResolveLogsFor(str)} \cup
  {<<a, b>> : a \in LogsFor(str), b \in ResolveLogsFor(str)}

InitResolve == CovInitWith({<<"A">>, <<"#", "g">>}, 0)
ResolveFirst == ReportFirstFrom(ResolveSeqsFor(content))
SpecResolve == InitResolve /\ [][ResolveFirst]_vars

(***************************************************************************)
(* CoverInterceptor (src/src/coverage.ts)                                  *)
(***************************************************************************)

\* Outcomes of the provider's eth_call: a result value, or a throw; the
\* hash eth_sendTransaction resolves to.
CallResults == {1, 2}
Thrown == -1
TxHash == 3

\* A request ends by returning v, or by rethrowing an exception of an
\* awaited request (there is no try/finally around the awaits).
IcEnd(id, v) ==
  /\ icReturned' = [icReturned EXCEPT ![id] = v]
  /\ icPc' = [icPc EXCEPT ![id] = "done"]

\* request(args): eth_call goes to interceptCall, eth_sendTransaction to
\* interceptSend; both first await a provider request. Any other method is
\* forwarded to the provider as is.
ICRequest(id) ==
  /\ icPc[id] = "init"
  /\ \E kind \in {"call", "send", "forward"} :
       /\ icKind' = [icKind EXCEPT ![id] = kind]
       /\ icPc' = [icPc EXCEPT ![id] = kind]
  /\ UNCHANGED <<icResult, icSnapId, icNextSnap, icLive, icSnaps, icReverts, icReturned, icTraced>>
  /\ UNCHANGED OtherThanIc

\* The provider's snapshot stack after evm_revert(snap): the snapshot and
\* every later one are dropped; an id no longer on it reverts nothing.
RevertedLive(live, snap) ==
  SelectSeq(live, LAMBDA x : x < snap)

\* The default branch, `return this.provider.request(args)`: the caller's
\* own evm_snapshot (a fresh id pushed on the provider's snapshot stack),
\* evm_revert(snap) of an id up to the next one (reverting it and every
\* later snapshot if it is live; the answer is whether it was), another
\* method that leaves the snapshot state alone, or a rejection.
ForwardedMethods == {"evm_snapshot", "evm_revert", "other", "throws"}
ForwardedResult == 4
ICForward(id) ==
  /\ icPc[id] = "forward"
  /\ \E m \in ForwardedMethods :
       CASE m = "evm_snapshot" ->
              /\ icNextSnap' = icNextSnap + 1
              /\ icSnaps' = Append(icSnaps, icNextSnap)
              /\ icLive' = Append(icLive, icNextSnap)
              /\ IcEnd(id, icNextSnap)
              /\ UNCHANGED icReverts
         [] m = "evm_revert" ->
              \E snap \in 1..icNextSnap :
                LET live == \E i \in DOMAIN icLive : icLive[i] = snap
                IN /\ icReverts' = Append(icReverts, <<snap, live, "user">>)
                   /\ icLive' = IF live THEN RevertedLive(icLive, snap) ELSE icLive
                   /\ IcEnd(id, IF live THEN 1 ELSE 0)
                   /\ UNCHANGED <<icNextSnap, icSnaps>>
         [] m = "other" ->
              /\ IcEnd(id, ForwardedResult)
              /\ UNCHANGED <<icNextSnap, icSnaps, icLive, icReverts>>
         [] m = "throws" ->
              /\ IcEnd(id, Thrown)
              /\ UNCHANGED <<icNextSnap, icSnaps, icLive, icReverts>>
  /\ UNCHANGED <<icKind, icResult, icSnapId, icTraced>>
  /\ UNCHANGED OtherThanIc

\* interceptCall: await eth_call, which may throw.
ICCall(id) ==
  /\ icPc[id] = "call"
  /\ \E r \in CallResults \cup {Thrown} :
       IF r = Thrown
       THEN /\ IcEnd(id, Thrown)
            /\ UNCHANGED icResult
       ELSE /\ icResult' = [icResult EXCEPT ![id] = r]
            /\ icPc' = [icPc EXCEPT ![id] = "snapshot"]
            /\ UNCHANGED icReturned
  /\ UNCHANGED <<icKind, icSnapId, icNextSnap, icLive, icSnaps, icReverts, icTraced>>
  /\ UNCHANGED OtherThanIc

\* await evm_snapshot, which may throw; the provider hands out a fresh id
\* and pushes it on its snapshot stack.
ICSnapshot(id) ==
  /\ icPc[id] = "snapshot"
  /\ \E ok \in BOOLEAN :
       IF ok
       THEN /\ icSnapId' = [icSnapId EXCEPT ![id] = icNextSnap]
            /\ icNextSnap' = icNextSnap + 1
            /\ icSnaps' = Append(icSnaps, icNextSnap)
            /\ icLive' = Append(icLive, icNextSnap)
            /\ icPc' = [icPc EXCEPT ![id] = "send"]
            /\ UNCHANGED icReturned
       ELSE /\ IcEnd(id, Thrown)
            /\ UNCHANGED <<icSnapId, icNextSnap, icSnaps, icLive>>
  /\ UNCHANGED <<icKind, icResult, icReverts, icTraced>>
  /\ UNCHANGED OtherThanIc

\* interceptSend: await eth_sendTransaction, which may throw.
ICSend(id) ==
  /\ icPc[id] = "send"
  /\ \E ok \in BOOLEAN :
       IF ok THEN /\ icPc' = [icPc EXCEPT ![id] = "getblock"]
                  /\ UNCHANGED icReturned
       ELSE IcEnd(id, Thrown)
  /\ UNCHANGED <<icKind, icResult, icSnapId, icNextSnap, icLive, icSnaps, icReverts, icTraced>>
  /\ UNCHANGED OtherThanIc

\* interceptSend returns txHash: interceptCall goes on to evm_revert, a
\* direct eth_sendTransaction request resolves to the hash.
IcSendReturns(id) ==
  IF icKind[id] = "call"
  THEN /\ icPc' = [icPc EXCEPT ![id] = "revert"]
       /\ UNCHANGED icReturned
  ELSE IcEnd(id, TxHash)

\* interceptSend: await eth_getBlockByNumber('pending'), which may throw;
\* tracing is skipped when the pending block has transactions.
ICGetBlock(id) ==
  /\ icPc[id] = "getblock"
  /\ \E outcome \in {"throw", "pending", "empty"} :
       CASE outcome = "throw" -> IcEnd(id, Thrown)
         [] outcome = "pending" -> IcSendReturns(id)
         [] outcome = "empty" -> /\ icPc' = [icPc EXCEPT ![id] = "trace"]
                                 /\ UNCHANGED icReturned
  /\ UNCHANGED <<icKind, icResult, icSnapId, icNextSnap, icLive, icSnaps, icReverts, icTraced>>
  /\ UNCHANGED OtherThanIc

\* interceptSend: await traceAndReport(provider, [txHash], this.report)
\* inside try/catch. Trace.crawl may reject (nothing is reported or
\* loaded), or this.report may throw part-way after loadAddresses (the logs
\* before the failing one stay in the shared report); the failure is logged
\* and txHash returned.
ICTrace(id) ==
  /\ icPc[id] = "trace"
  /\ \E outcome \in TxOutcomes :
       /\ icTraced' = CASE outcome = "ok" -> Append(icTraced, <<id, "full">>)
                        [] outcome = "reportFails" -> Append(icTraced, <<id, "partial">>)
                        [] OTHER -> icTraced
       /\ srcAddrs' = AddressesAfter(srcAddrs, id, outcome)
  /\ IcSendReturns(id)
  /\ UNCHANGED <<icKind, icResult, icSnapId, icNextSnap, icLive, icSnaps, icReverts>>
  /\ UNCHANGED <<smVars, covVars, trVars, SrcOtherThanAddrs, flVars, taVars>>

\* await evm_revert(snapId), which may throw; then return the eth_call
\* result. The revert answers whether the snapshot was still live.
ICRevert(id) ==
  /\ icPc[id] = "revert"
  /\ \E ok \in BOOLEAN :
       IF ok
       THEN LET snap == icSnapId[id]
                live == \E i \in DOMAIN icLive : icLive[i] = snap
            IN /\ icReverts' = Append(icReverts, <<snap, live, "call">>)
               /\ icLive' = IF live THEN RevertedLive(icLive, snap) ELSE icLive
               /\ IcEnd(id, icResult[id])
       ELSE /\ IcEnd(id, Thrown)
            /\ UNCHANGED <<icReverts, icLive>>
  /\ UNCHANGED <<icKind, icResult, icSnapId, icNextSnap, icSnaps, icTraced>>
  /\ UNCHANGED OtherThanIc

InitInterceptor ==
  /\ IcIdle
  /\ TaIdle
  /\ FlIdle
  /\ SMIdle
  /\ CovIdle
  /\ TrIdle
  /\ SrcIdle

InterceptorNext ==
  \E id \in Reqs :
    \/ ICRequest(id) \/ ICCall(id) \/ ICSnapshot(id) \/ ICSend(id)
    \/ ICGetBlock(id) \/ ICTrace(id) \/ ICRevert(id) \/ ICForward(id)
SpecInterceptor == InitInterceptor /\ [][InterceptorNext]_vars

(***************************************************************************)
(* Claims on Sources                                                       *)
(***************************************************************************)

\* The two acceptance rules of the fuzzy match, as the claim states them.
AcceptsFuzzy(b, k) ==
  \/ Len(b) = Len(k) /\ \A i \in 1..Len(b) : b[i] = k[i] \/ k[i] = "0"
  \/ Len(b) > Len(k) /\ Len(k) > 42 /\ SubSeq(b, 1, Len(k)) = k

\* C5: an exact key wins; otherwise b resolves to the SourceMap of a known
\* bytecode k accepted by one of the fuzzy rules, and is then cached so a
\* direct lookup of b returns the same SourceMap; with no such k the lookup
\* fails with NoSourceMap.
C5_FuzzyLookup ==
  srcLookups >= 1 =>
    LET b == srcQuery
        known == {srcPrevKeys[i] : i \in DOMAIN srcPrevKeys}
    IN IF b \in DOMAIN srcPrevB2S THEN srcResult = srcPrevB2S[b]
       ELSE IF \E k \in known : AcceptsFuzzy(b, k)
       THEN /\ \E k \in known : AcceptsFuzzy(b, k) /\ srcResult = srcPrevB2S[k]
            /\ srcPhase = "ready"
            /\ b \in DOMAIN srcB2S
            /\ srcB2S[b] = srcResult
       ELSE srcResult = -1

C5_Witness ==
  /\ srcLookups >= 1
  /\ srcQuery \notin DOMAIN srcPrevB2S
  /\ \E i \in DOMAIN srcPrevKeys :
       /\ Len(srcPrevKeys[i]) > 42
       /\ Len(srcQuery) > Len(srcPrevKeys[i])
       /\ srcResult = srcPrevB2S[srcPrevKeys[i]]

\* C6: indexing never fails, and every (bytecode, sourceId) pair resolves
\* through bytecodeAndIndexToPath to a path whose stored compiler source has
\* the content of that source.
C6_PathDisambiguation ==
  srcPhase /= "new" =>
    /\ srcPhase /= "error"
    /\ \A key \in DOMAIN srcBi2p :
         \A id \in DOMAIN srcBi2p[key] :
           LET srcs == srcMaps[srcB2S[key]].sources
               path == srcBi2p[key][id]
           IN /\ path \in DOMAIN srcP2cs
              /\ \A j \in DOMAIN srcs : srcs[j].id = id => srcP2cs[path].content = srcs[j].content

(***************************************************************************)
(* Claims on Trace                                                         *)
(***************************************************************************)

\* The low 20 bytes (last 40 nibbles) of a 32-byte word.
Low20Bytes(w) == SubSeq(w, Len(w) - 39, Len(w))
\* A stack word as a number; every word above one byte is past the 32 bytes
\* of modelled memory and is written 256.
WordNum(w) == IF \A k \in 1..(Len(w) - 2) : w[k] = 0 THEN 16 * w[Len(w) - 1] + w[Len(w)] ELSE 256
\* memory[offset, offset + length) as nibbles, cut at the end of memory.
MemoryBytes(mem, offset, length) ==
  LET lo == IF 2 * offset < Len(mem) THEN 2 * offset ELSE Len(mem)
      hi == IF 2 * (offset + length) < Len(mem) THEN 2 * (offset + length) ELSE Len(mem)
  IN IF hi <= lo THEN <<>> ELSE SubSeq(mem, lo + 1, hi)

\* C2: each structLog is tagged with the top frame (its bytecode if it carries
\* one, i.e. it was pushed by CREATE/CREATE2, else its address) before the stack update; then a call opcode pushes
\* {address = low 20 bytes of stack slot 1} exactly when the next depth is
\* pre.depth + 1, CREATE/CREATE2 pushes {bytecode = memory[offset,
\* offset+length)} and fails unless the depth increases, and any other opcode
\* pops exactly when the depth decreases and fails if it increases.
C2_FollowInfoStack ==
  [][(TraceStep /\ trStack /= <<>>) =>
       LET top == trStack[Len(trStack)]
           d == trCur.depth
           pd == IF trNext /= <<>> THEN trNext.depth ELSE d
       IN /\ trLast'.log = trCur
          /\ IF top.bytecode.def
             THEN trLast'.bytecode = top.bytecode /\ ~trLast'.address.def
             ELSE trLast'.address = top.address /\ ~trLast'.bytecode.def
          /\ CASE trCur.op \in CallOps ->
                    /\ ~trErr'
                    /\ trStack' = IF pd = d + 1
                                  THEN Append(trStack,
                                         [address |-> Def(<<"0x">> \o Low20Bytes(trCur.stack[Len(trCur.stack) - 1])),
                                          bytecode |-> Undef])
                                  ELSE trStack
               [] trCur.op \in CreateOps ->
                    IF pd = d + 1
                    THEN /\ ~trErr'
                         /\ trStack' = Append(trStack,
                              [address |-> Undef,
                               bytecode |-> Def(MemoryBytes(trCur.memory,
                                                 WordNum(trCur.stack[Len(trCur.stack) - 1]),
                                                 WordNum(trCur.stack[Len(trCur.stack) - 2])))])
                    ELSE trErr'
               [] OTHER ->
                    IF pd > d THEN trErr'
                    ELSE /\ ~trErr'
                         /\ trStack' = IF pd < d THEN SubSeq(trStack, 1, Len(trStack) - 1)
                                       ELSE trStack]_vars

(***************************************************************************)
(* Claims on Coverage                                                      *)
(***************************************************************************)

\* The features met by one log, byte by byte, in order.
RECURSIVE RangeFeatures(_, _, _)
RangeFeatures(feats, i, stop) ==
  IF i >= stop THEN <<>> ELSE feats[i] \o RangeFeatures(feats, i + 1, stop)
\* The source range a log of the covered bytecode resolves to.
LogRange(log) == srcMaps[1].indexToRange[srcMaps[1].pcToIndex[log.pc]]
LogFeatures(log) ==
  RangeFeatures(features, LogRange(log).start, LogRange(log).start + LogRange(log).length)
KindPositions(log, kind) == {j \in DOMAIN LogFeatures(log) : LogFeatures(log)[j].k = kind}
LinesOf(log) == {LogFeatures(log)[j].v : j \in KindPositions(log, "l")}
CountOf(log, feature) ==
  Cardinality({j \in DOMAIN LogFeatures(log) : LogFeatures(log)[j] = feature})
FirstOfKind(log, kind) ==
  LET ps == KindPositions(log, kind)
  IN IF ps = {} THEN <<>> ELSE <<LogFeatures(log)[CHOOSE j \in ps : \A q \in ps : j <= q]>>
\* The bytes of a log's range all carry line n.
OnOneLine(log, n) ==
  /\ LogRange(log).length > 0
  /\ \A i \in LogRange(log).start..(LogRange(log).start + LogRange(log).length - 1) :
       features[i][1] = LineF(n)

\* C1: for one TaggedLog, each line met in its range is incremented once,
\* only the first Branch feature of the range increments b, every Statement
\* feature increments s; two consecutive logs on one line add 2 to it.
C1_PerOpcodeDedup ==
  /\ (nCalls >= 1 /\ Len(lastLogs) = 1) =>
       LET log == lastLogs[1]
           fb == FirstOfKind(log, "b")
       IN /\ \A n \in DOMAIN rep.l :
                rep.l[n] = IF n \in LinesOf(log) THEN prevRep.l[n] + 1 ELSE prevRep.l[n]
          /\ \A id \in BranchIds, a \in BranchAlts :
                rep.b[id][a] = IF fb = <<BranchF(id, a)>>
                               THEN prevRep.b[id][a] + 1 ELSE prevRep.b[id][a]
          /\ \A id \in StmtIds : rep.s[id] = prevRep.s[id] + CountOf(log, StmtF(id))
  /\ (nCalls >= 1 /\ Len(lastLogs) = 2) =>
       \A n \in DOMAIN rep.l :
         (OnOneLine(lastLogs[1], n) /\ OnOneLine(lastLogs[2], n)) =>
           rep.l[n] = prevRep.l[n] + 2

\* C8: a report call never decreases a counter of the report, and two calls
\* with the same logs on a fresh report leave every counter at exactly twice
\* its value after the first call.
Counters(r) ==
  {<<"l", n>> : n \in DOMAIN r.l} \cup {<<"f", id>> : id \in FnIds} \cup
  {<<"s", id>> : id \in StmtIds} \cup {<<"b", id, a>> : id \in BranchIds, a \in BranchAlts}
CounterVal(r, c) ==
  CASE c[1] = "l" -> r.l[c[2]] [] c[1] = "f" -> r.f[c[2]]
    [] c[1] = "s" -> r.s[c[2]] [] c[1] = "b" -> r.b[c[2]][c[3]]
C8_Monotone ==
  /\ nCalls >= 1 =>
       \A c \in Counters(prevRep) :
         CounterVal(prevRep, c) >= 0 =>
           CounterVal(rep, c) >= CounterVal(prevRep, c)
  /\ nCalls = 2 =>
       \A c \in Counters(firstRep) :
         CounterVal(firstRep, c) /= Undefined =>
           /\ CounterVal(firstRep, c) >= 0
           /\ CounterVal(rep, c) = 2 * CounterVal(firstRep, c)

\* C9: a Function feature counts only for a JUMPDEST opcode, and one JUMPDEST
\* increments at most one function counter, the first Function feature met.
C9_FunctionCredit ==
  (nCalls >= 1 /\ Len(lastLogs) = 1) =>
    LET log == lastLogs[1]
        ff == FirstOfKind(log, "f")
    IN \A id \in FnIds :
         rep.f[id] = IF log.op = "JUMPDEST" /\ LogRange(log).length > 0 /\ ff = <<FnF(id)>>
                     THEN prevRep.f[id] + 1 ELSE prevRep.f[id]

\* C10: for every byte offset i of the content, features[i][0] is a Line
\* feature whose line is offsetToPosition[i].line.
C10_LineLayer ==
  \A i \in 0..(Len(EncodeUtf8(content)) - 1) :
    features[i][1] = LineF(offsetToPosition[i].line)

\* The line numbers carried as Line features by the source bytes.
FeatureLines ==
  UNION {{features[i][j].v : j \in {q \in DOMAIN features[i] : features[i][q].k = "l"}} :
           i \in DOMAIN features}

\* C16: every line number carried as a Line feature is an index of
\* freshReport().l initialised to 0, and every such l counter stays a finite
\* non-negative integer after report calls.
C16_LineCountersWellFormed ==
  \A n \in FeatureLines :
    /\ n \in DOMAIN FreshReport(content).l
    /\ FreshReport(content).l[n] = 0
    /\ rep.l[n] >= 0

(***************************************************************************)
(* Claims on SourceMap                                                     *)
(***************************************************************************)

\* Instruction starts as prefix sums of instruction lengths over the decoded
\* byte stream only.
RECURSIVE PrefixSumStarts(_, _, _, _)
PrefixSumStarts(bs, pc, i, acc) ==
  IF pc >= Len(bs) THEN acc
  ELSE PrefixSumStarts(bs, pc + InstructionLength(bs[pc + 1]), i + 1, acc @@ (pc :> i))

\* C3: after parse, the keys of pcToInstructionIndices are exactly the prefix
\* sums of instruction lengths over the decoded bytes, each key is below the
\* number of decoded bytes, and each key maps to its instruction ordinal.
C3_PCKeysArePrefixSums ==
  smParsed =>
    /\ smPcMap = PrefixSumStarts(DecodeHex(smHex), 0, 0, <<>>)
    /\ \A pc \in DOMAIN smPcMap : pc < Len(DecodeHex(smHex))

\* C4 (as stated): on the fixtures, pcToInstructionIndex(18) = 10 and
\* instructionIndexToRange(5) = {155, 997, 1} for the constructor code,
\* pcToInstructionIndex(183) = 143 and instructionIndexToRange(7) =
\* {155, 997, 1} for the runtime code, which has 94 decoded bytes.
C4_FixtureLookupsAsStated ==
  /\ smHex = RuntimeObject => Len(DecodeHex(smHex)) = 94
  /\ (smHex = ConstructorObject /\ smQuery = <<"pc", 18>>) => smResult = Result(TRUE, 10, NoRange)
  /\ (smHex = ConstructorObject /\ smQuery = <<"range", 5>>) =>
        smResult = Result(TRUE, -1, [start |-> 155, length |-> 997, index |-> 1])
  /\ (smHex = RuntimeObject /\ smQuery = <<"pc", 183>>) => smResult = Result(TRUE, 143, NoRange)
  /\ (smHex = RuntimeObject /\ smQuery = <<"range", 7>>) =>
        smResult = Result(TRUE, -1, [start |-> 155, length |-> 997, index |-> 1])

\* C4 (amended): the same lookups hold; the runtime code has 92 decoded bytes
\* (184 hex characters), so pc 183 is a key only because the walk runs over
\* the hex-string length.
C4_FixtureLookups ==
  /\ smHex = RuntimeObject => Len(DecodeHex(smHex)) = 92 /\ Len(smHex) = 184
  /\ (smHex = ConstructorObject /\ smQuery = <<"pc", 18>>) => smResult = Result(TRUE, 10, NoRange)
  /\ (smHex = ConstructorObject /\ smQuery = <<"range", 5>>) =>
        smResult = Result(TRUE, -1, [start |-> 155, length |-> 997, index |-> 1])
  /\ (smHex = RuntimeObject /\ smQuery = <<"pc", 183>>) => smResult = Result(TRUE, 143, NoRange)
  /\ (smHex = RuntimeObject /\ smQuery = <<"range", 7>>) =>
        smResult = Result(TRUE, -1, [start |-> 155, length |-> 997, index |-> 1])

C4_Witness == smHex = RuntimeObject /\ smQuery = <<"pc", 183>> /\ smResult = Result(TRUE, 143, NoRange)

(***************************************************************************)
(* Claims on CoverInterceptor                                              *)
(***************************************************************************)

\* C7: whenever no request is in flight, every intercepted eth_call whose
\* forwarded eth_call produced a result returned that result to the caller,
\* and every evm_snapshot it issued has been followed by exactly one
\* evm_revert of its id (by anyone), which found it live, also when the
\* replayed eth_sendTransaction or its tracing failed.
C7_SnapshotRevertPaired ==
  (\A id \in Reqs : icPc[id] \in {"init", "done"}) =>
    /\ \A id \in Reqs :
         (icKind[id] = "call" /\ icPc[id] = "done" /\ icResult[id] /= 0) =>
           icReturned[id] = icResult[id]
    /\ \A id \in Reqs :
         icSnapId[id] /= 0 =>
           /\ Cardinality({i \in DOMAIN icReverts : icReverts[i][1] = icSnapId[id]}) = 1
           /\ \A i \in DOMAIN icReverts : icReverts[i][1] = icSnapId[id] => icReverts[i][2]

\* C11: filteredReport keeps no path starting with '#' or containing ':',
\* and keeps line n of a path only if some source byte whose Line feature is
\* n carries a branch, a non-skip function or a non-skip statement, with the
\* count of the input report.
C11_FilteredReport ==
  flOut.done =>
    \A path \in DOMAIN flOut.r :
      /\ ~StartsWithHash(path)
      /\ ~IncludesColon(path)
      /\ \A n \in DOMAIN flOut.r[path] :
           /\ \E i \in DOMAIN flFeatures :
                /\ \E j \in DOMAIN flFeatures[i] : flFeatures[i][j] = LineF(n)
                /\ \E j \in DOMAIN flFeatures[i] :
                     \/ flFeatures[i][j].k = "b"
                     \/ flFeatures[i][j].k = "f" /\ ~flFnSkip[flFeatures[i][j].v]
                     \/ flFeatures[i][j].k = "s" /\ ~flStmtSkip[flFeatures[i][j].v]
           /\ flOut.r[path][n] = flInL[n]

C11_Witness ==
  /\ flOut.done
  /\ \E path \in DOMAIN flOut.r : DOMAIN flOut.r[path] /= {}
  /\ \E path \in flPaths : StartsWithHash(path)
  /\ \E path \in flPaths : IncludesColon(path)
  /\ \E i \in DOMAIN flFeatures : Len(flFeatures[i]) = 1

\* C12: a failure to crawl or report one transaction is caught and the
\* remaining hashes are still processed: once traceAndReport has settled,
\* every transaction that could be crawled and reported has been reported.
C12_ContinuesAfterError ==
  taStatus \in {"resolved", "rejected"} =>
    \A i \in DOMAIN taTxs : taTxs[i] = "ok" => i \in taReported

\* The field j (1 = s, 2 = l, 3 = f) of an entry, empty when missing.
FieldOf(entry, j) ==
  LET fs == Split(entry, ":") IN IF j <= Len(fs) THEN fs[j] ELSE <<>>
\* The value of field j for entry k (from 0): that of the last entry up to k
\* with a non-empty field j, or 0 from the initial state.
Inherited(entries, k, j) ==
  LET ks == {q \in 0..k : FieldOf(entries[q + 1], j) /= <<>>}
  IN IF ks = {} THEN 0
     ELSE ParseInt(FieldOf(entries[(CHOOSE q \in ks : \A r \in ks : r <= q) + 1], j))

\* C13: after SourceMap.parse, instructionIndexToRange(k) for the k-th
\* ';'-separated entry is {start: s, length: l, index: f}, where each empty
\* field inherits the value of the previous entry, starting from {0, 0, 0}.
C13_SourceMapInheritance ==
  smParsed =>
    LET entries == Split(smSrcMap, ";")
    IN /\ DOMAIN smRanges = 0..(Len(entries) - 1)
       /\ \A k \in DOMAIN smRanges :
            smRanges[k] = [start |-> Inherited(entries, k, 1),
                           length |-> Inherited(entries, k, 2),
                           index |-> Inherited(entries, k, 3)]

C13_Witness ==
  /\ smSrcMap = ExampleSourceMap
  /\ smQuery = <<"range", 2>>
  /\ smResult = Result(TRUE, -1, [start |-> 5, length |-> 20, index |-> 0])

\* C14: every TaggedLog followInfo yields has exactly one of address and
\* bytecode set (an address of null, the creation transaction's frame,
\* counts as set): the frame's bytecode in a frame created by
\* CREATE/CREATE2, the frame's address otherwise.
AddressSet(x) == x.def \/ x.null
C14_ExactlyOneTag ==
  DOMAIN trLast = {"address", "bytecode", "log"} =>
    \/ AddressSet(trLast.address) /\ ~trLast.bytecode.def
    \/ ~AddressSet(trLast.address) /\ trLast.bytecode.def

\* The callee of CallLog: 0x followed by its 20 low bytes.
Callee == Def(<<"0x">> \o [k \in 1..40 |-> 10])

\* C15, as stated: for CALL at depth 1, RETURN at depth 2, then opcodes at
\* depth 1, the first two tagged logs carry the callee's address and every
\* later depth-1 log carries tx.to.
C15_CallReturnAsStated ==
  [][CallReturnStep /\ ~trErr' =>
       IF trI <= 1 THEN trLast'.address = Callee ELSE trLast'.address = trTo]_vars

\* C15, as the code does it: the CALL log itself runs in the caller's frame
\* and carries tx.to; only the RETURN log carries the callee's address; every
\* later depth-1 log carries tx.to again.
C15_CallReturn ==
  [][CallReturnStep /\ ~trErr' =>
       IF trI = 1 THEN trLast'.address = Callee ELSE trLast'.address = trTo]_vars

C15_Witness ==
  /\ trI = 3
  /\ trTo /= Callee
  /\ trLast.log.depth = 1
  /\ trLast.address = trTo
  /\ Len(trStack) = 1

\* C17: on a well-formed trace the frame stack is never empty when a log is
\* tagged: before tagging log i its height is
\* structLogs[i].depth - structLogs[0].depth + 1.
C17_StackHeight ==
  ~trDone => Len(trStack) = trCur.depth - FirstDepth + 1

====
